---- MODULE Spec2Model ----
(***************************************************************************)
(* Model of rotation/lambda_function.py: the Secrets Manager rotation      *)
(* lambda that rotates an IAM access key and its derived SES SMTP          *)
(* password.  One invocation of lambda_handler is a sequence of atomic     *)
(* steps, one per collaborator call (Secrets Manager, IAM, STS); the       *)
(* secret's version/stage map, its stored values and the user's access     *)
(* keys are the shared state.                                              *)
(***************************************************************************)
EXTENDS Integers, Sequences, FiniteSets, TLC

\* ------------------------------------------------------------------ bounds
\* createAccessKey calls the identity provider serves in one run.
MaxMints == 2
\* createSecret invocations per token that are cut off (timeout, crash, transient
\* upstream error) after they listed the access keys.
MaxCutoffs == 1

\* ------------------------------------------------------- program constants
DATE == "11111111"
SERVICE == "ses"
MESSAGE == "SendRawEmail"
TERMINAL == "aws4_request"
VERSION == 4
\* check_access_key(access_key_id, secret_access_key, attempts=5)
DefaultAttempts == 5
\* time.sleep(5)
SleepSeconds == 5
\* os.environ['USERNAME']
USERNAME == "alice"
required_fields == {"SMTP_USERNAME", "SMTP_PASSWORD", "SMTP_REGION"}

\* ---------------------------------------------------------------- universe
Procs == {1, 2}
\* "v0" is the version that is AWSCURRENT before any rotation; "t1", "t2" are
\* the request tokens of rotations.
InitialVersion == "v0"
Tokens == {"t1", "t2"}
VersionIds == {InitialVersion} \cup Tokens
Steps == {"createSecret", "setSecret", "testSecret", "finishSecret", "deleteSecret"}
\* Python's None (token=None, current_version = None).
None == "None"
\* The user's access keys before any rotation; key 1 is the one the
\* AWSCURRENT secret names.
InitialKeyIds == {1, 2, 3}
CurrentKeyId == 1
KeyIds == InitialKeyIds \cup (4 .. (4 + MaxMints))
\* An Arn as its '/'-separated pieces.
Arns == { <<"arn:aws:iam::1:user", "alice">>,
          <<"arn:aws:iam::1:user", "mallory">>,
          <<"arn:aws:iam::1:user", "team", "alice">>,
          <<"arn:aws:iam::1:root">> }
\* What sts.get_caller_identity() can answer.
ClientError == <<"ClientError">>
StsAnswers == {ClientError} \cup Arns

VARIABLES
    RotationEnabled,      \* metadata['RotationEnabled']
    VersionIdsToStages,   \* metadata['VersionIdsToStages']: version id -> stage labels
    SecretValues,         \* version id -> stored secret dictionary
    AccessKeys,           \* IAM: the ids of the user's access keys
    nextKeyId,            \* IAM: the id the next createAccessKey assigns
    begun,                \* tokens the orchestrator has started a rotation with
    pc,                   \* per invocation: the collaborator call it is about to make
    token,                \* event['ClientRequestToken']
    step,                 \* event['Step']
    current_secret,       \* create_secret: the dictionary read at AWSCURRENT
    access_keys,          \* create_secret: the listed AccessKeyMetadata ids
    pending,              \* test_secret: the dictionary read at AWSPENDING
    attempts,             \* check_access_key: the attempts argument
    key_index,            \* create_secret: the position of the loop over access_keys
    current_version,      \* finish_secret: the version seen carrying AWSCURRENT
    calls,                \* get_caller_identity calls made by the invocation so far
    sleeps,               \* time.sleep calls made by the invocation so far
    last,                 \* the outcome the caller is being handed: the event, how
                          \* the invocation ended ("ok" or what it raised), the user
                          \* name check_access_key returned, and its
                          \* get_caller_identity and sleep calls
    mints,                \* per token: create_access_key calls made for it
    batches,              \* per token: invocations that called delete_access_key
    lost,                 \* per token: invocations that listed the keys and ended
                          \* without putting the secret
    created,              \* tokens a createSecret invocation has succeeded for
    tested,               \* tokens a testSecret invocation has succeeded for
    finished              \* tokens a finishSecret invocation has moved AWSCURRENT to

store == <<RotationEnabled, VersionIdsToStages, SecretValues, AccessKeys, nextKeyId>>
locals == <<current_secret, access_keys, key_index, pending, attempts, current_version>>
event == <<token, step>>
counters == <<mints, batches, lost>>
history == <<created, tested, finished>>
vars == <<store, begun, pc, event, locals, calls, sleeps, last, counters, history>>

\* ------------------------------------------------------ credential derivation
\* hmac.new(key, msg.encode('utf-8'), hashlib.sha256).digest(), as a term.
sign(key, msg) == <<"hmac-sha256", key, msg>>

b64encode(bytes) == <<"base64", bytes>>

calculate_password(secret_access_key, region) ==
    LET s0 == sign(<<"AWS4", secret_access_key>>, DATE)
        s1 == sign(s0, region)
        s2 == sign(s1, SERVICE)
        s3 == sign(s2, TERMINAL)
        s4 == sign(s3, MESSAGE)
        signature_and_version == <<VERSION, s4>>
    IN  b64encode(signature_and_version)

\* ------------------------------------------------------------- dictionaries
\* d[k] = v on a Python dict: the key is added when absent.
SetItem(d, k, v) == [f \in (DOMAIN d) \cup {k} |-> IF f = k THEN v ELSE d[f]]
DelItem(d, k) == [f \in (DOMAIN d) \ {k} |-> d[f]]
NoDict == [f \in {} |-> 0]

\* response['AccessKey']['SecretAccessKey'] of the key IAM minted with this id.
SecretAccessKeyOf(id) == <<"secret-of", id>>

InitialRegion == "us-east-1"
InitialDict ==
    [ SMTP_USERNAME |-> CurrentKeyId,
      SMTP_SECRET   |-> SecretAccessKeyOf(CurrentKeyId),
      SMTP_PASSWORD |-> calculate_password(SecretAccessKeyOf(CurrentKeyId), InitialRegion),
      SMTP_REGION   |-> InitialRegion,
      SMTP_HOST     |-> "email-smtp" ]
\* The AWSCURRENT secret before any rotation: well formed, or lacking one field.
InitialDicts ==
    {InitialDict} \cup
    { DelItem(InitialDict, f) :
        f \in {"SMTP_USERNAME", "SMTP_SECRET", "SMTP_PASSWORD", "SMTP_REGION"} }

\* ------------------------------------------------------------ secret store
\* VersionIdsToStages lists the versions that carry a staging label.
Prune(vs) == [v \in {x \in DOMAIN vs : vs[x] # {}} |-> vs[v]]

StagesOf(vs, v) == IF v \in DOMAIN vs THEN vs[v] ELSE {}

\* The secret store's side of put_secret_value(VersionStages=...), as the
\* specification states it (the store is not part of the repository): a
\* staging label is attached to one version at a time, so attaching it to v
\* takes it off every other version.
AttachStages(vs, v, stages) ==
    Prune([x \in (DOMAIN vs) \cup {v} |->
              IF x = v THEN StagesOf(vs, v) \cup stages ELSE vs[x] \ stages])

\* get_secret_value(SecretId=arn, [VersionId=tok,] VersionStage=stage): the
\* versions that answer it; none is ResourceNotFoundException.
get_secret_value(stage, tok) ==
    { v \in (DOMAIN VersionIdsToStages) \cap (DOMAIN SecretValues) :
        /\ stage \in VersionIdsToStages[v]
        /\ (tok # None => v = tok) }

\* get_secret_dict(service_client, arn, stage, token): the exception it raises,
\* or "ok" when it returns the dictionary of version v.
MissingField(d) == \E field \in required_fields : field \notin DOMAIN d

get_secret_dict_raises(stage, tok) ==
    IF get_secret_value(stage, tok) = {} THEN "ResourceNotFoundException"
    ELSE IF \E v \in get_secret_value(stage, tok) : MissingField(SecretValues[v])
         THEN "KeyError"
         ELSE "ok"

\* ------------------------------------------------------------ invocations
InFlight(p) == pc[p] \notin {"idle", "returned"}

\* The invocation of p has ended and its outcome is with the caller.
Returned(p) == pc[p] = "returned"

ResetLocals(p) ==
    /\ current_secret' = [current_secret EXCEPT ![p] = NoDict]
    /\ access_keys' = [access_keys EXCEPT ![p] = <<>>]
    /\ key_index' = [key_index EXCEPT ![p] = 1]
    /\ pending' = [pending EXCEPT ![p] = NoDict]
    /\ attempts' = [attempts EXCEPT ![p] = DefaultAttempts]
    /\ current_version' = [current_version EXCEPT ![p] = None]

\* The invocation of event (tok, st) returns (r = "ok") or raises r, having
\* resolved user name u and made c identity checks and s sleeps.
Outcome(p, tok, st, r, u, c, s) ==
    [proc |-> p, token |-> tok, step |-> st, result |-> r, username |-> u,
     calls |-> c, sleeps |-> s]

\* No outcome is waiting to be taken by the caller.
NoOutcome == Outcome(0, None, None, "none", None, 0, 0)

EndWith(p, r, u, c, s) ==
    /\ pc' = [pc EXCEPT ![p] = "returned"]
    /\ last' = Outcome(p, token[p], step[p], r, u, c, s)
    /\ token' = [token EXCEPT ![p] = None]
    /\ step' = [step EXCEPT ![p] = None]
    /\ calls' = [calls EXCEPT ![p] = 0]
    /\ sleeps' = [sleeps EXCEPT ![p] = 0]
    /\ ResetLocals(p)

End(p, r) == EndWith(p, r, None, calls[p], sleeps[p])

Goto(p, label) ==
    /\ pc' = [pc EXCEPT ![p] = label]
    /\ UNCHANGED <<event, calls, sleeps, last>>

Init ==
    /\ RotationEnabled \in BOOLEAN
    /\ VersionIdsToStages = (InitialVersion :> {"AWSCURRENT"})
    /\ SecretValues \in {(InitialVersion :> d) : d \in InitialDicts}
    /\ AccessKeys \in SUBSET InitialKeyIds
    /\ nextKeyId = 4
    /\ begun = {}
    /\ pc = [p \in Procs |-> "idle"]
    /\ token = [p \in Procs |-> None]
    /\ step = [p \in Procs |-> None]
    /\ current_secret = [p \in Procs |-> NoDict]
    /\ access_keys = [p \in Procs |-> <<>>]
    /\ key_index = [p \in Procs |-> 1]
    /\ pending = [p \in Procs |-> NoDict]
    /\ attempts = [p \in Procs |-> DefaultAttempts]
    /\ current_version = [p \in Procs |-> None]
    /\ calls = [p \in Procs |-> 0]
    /\ sleeps = [p \in Procs |-> 0]
    /\ last = NoOutcome
    /\ mints = [t \in Tokens |-> 0]
    /\ batches = [t \in Tokens |-> 0]
    /\ lost = [t \in Tokens |-> 0]
    /\ created = {}
    /\ tested = {}
    /\ finished = {}

\* The orchestrator starts a rotation: the version of a fresh request token
\* carries AWSPENDING before the first step is invoked.
BeginRotation(t) ==
    /\ t \in Tokens \ begun
    /\ begun' = begun \cup {t}
    /\ VersionIdsToStages' = AttachStages(VersionIdsToStages, t, {"AWSPENDING"})
    /\ UNCHANGED <<RotationEnabled, SecretValues, AccessKeys, nextKeyId, pc, event,
                   locals, calls, sleeps, last, counters, history>>

\* Mutant: the early return is taken only when AWSPENDING is gone.
AlreadyCurrent_NotPending(versions, tok) ==
    "AWSCURRENT" \in versions[tok] /\ "AWSPENDING" \notin versions[tok]

\* "AWSCURRENT" in versions[token]: the version is already current.
AlreadyCurrent(versions, tok) == "AWSCURRENT" \in versions[tok]

\* Mutant: a version without AWSPENDING is let through.
NotPending_Never(versions, tok) == FALSE

\* "AWSPENDING" not in versions[token]
NotPending(versions, tok) == "AWSPENDING" \notin versions[tok]

\* The staging checks of lambda_handler: what it raises, "return" for the early
\* return, or "dispatch".
StagingCheck(tok) ==
    IF ~RotationEnabled THEN "NotConfigured"
    ELSE IF tok \notin DOMAIN VersionIdsToStages THEN "UnknownVersion"
    ELSE IF AlreadyCurrent(VersionIdsToStages, tok) THEN "return"
    ELSE IF NotPending(VersionIdsToStages, tok) THEN "InvalidStage"
    ELSE "dispatch"

\* Mutant: the last branch of the dispatch takes every remaining step value.
IsFinishStep_Else(st) == TRUE

\* elif step == "finishSecret"
IsFinishStep(st) == st = "finishSecret"

\* lambda_handler(event, context) up to the call of the step's function:
\* describe_secret, the staging checks, and the dispatch on Step.  set_secret
\* is `pass`, so setSecret returns here.
lambda_handler(p, tok, st) ==
    /\ pc[p] = "idle"
    /\ LET check == StagingCheck(tok)
           returns == /\ pc' = [pc EXCEPT ![p] = "returned"]
                      /\ UNCHANGED <<event, calls, sleeps, locals>>
           enters(label) == /\ pc' = [pc EXCEPT ![p] = label]
                            /\ token' = [token EXCEPT ![p] = tok]
                            /\ step' = [step EXCEPT ![p] = st]
                            /\ UNCHANGED <<calls, sleeps, locals, last>>
       IN
       IF check = "return" THEN returns /\ last' = Outcome(p, tok, st, "ok", None, 0, 0)
       ELSE IF check # "dispatch"
            THEN returns /\ last' = Outcome(p, tok, st, check, None, 0, 0)
       ELSE IF st = "createSecret" THEN enters("create_secret")
       ELSE IF st = "setSecret"
            THEN returns /\ last' = Outcome(p, tok, st, "ok", None, 0, 0)
       ELSE IF st = "testSecret" THEN enters("test_secret")
       ELSE IF IsFinishStep(st) THEN enters("finish_secret")
       ELSE returns /\ last' = Outcome(p, tok, st, "UnknownPhase", None, 0, 0)
    /\ UNCHANGED <<store, begun, counters, history>>

\* ------------------------------------------------------------ create_secret
\* current_secret = get_secret_dict(service_client, arn, "AWSCURRENT")
create_get_current(p) ==
    /\ pc[p] = "create_secret"
    /\ LET raises == get_secret_dict_raises("AWSCURRENT", None) IN
       IF raises # "ok" THEN End(p, raises)
       ELSE \E v \in get_secret_value("AWSCURRENT", None) :
               /\ current_secret' = [current_secret EXCEPT ![p] = SecretValues[v]]
               /\ Goto(p, "create_get_pending")
               /\ UNCHANGED <<access_keys, key_index, pending, attempts, current_version>>
    /\ UNCHANGED <<store, begun, counters, history>>

\* Mutant: the existing value is never found, every invocation mints.
\* (Defined before the operator it replaces.)
PendingExists_NoValue(tok) == FALSE

\* get_secret_value(SecretId=arn, VersionId=token, VersionStage="AWSPENDING"):
\* found, the step is done; ResourceNotFoundException, a key is to be minted.
PendingExists(tok) == get_secret_value("AWSPENDING", tok) # {}

create_get_pending(p) ==
    /\ pc[p] = "create_get_pending"
    /\ IF PendingExists(token[p])
       THEN /\ End(p, "ok")
            /\ created' = created \cup {token[p]}
       ELSE /\ Goto(p, "create_list")
            /\ UNCHANGED <<locals, created>>
    /\ UNCHANGED <<store, begun, counters, tested, finished>>

\* The ids of a key set in the order IAM lists them (oldest first).
RECURSIVE AccessKeyMetadata(_)
AccessKeyMetadata(keys) ==
    IF keys = {} THEN <<>>
    ELSE LET first == CHOOSE k \in keys : \A other \in keys : k <= other
         IN  <<first>> \o AccessKeyMetadata(keys \ {first})

\* access_keys = iam.list_access_keys(UserName=username)
create_list(p) ==
    /\ pc[p] = "create_list"
    /\ access_keys' = [access_keys EXCEPT ![p] = AccessKeyMetadata(AccessKeys)]
    /\ key_index' = [key_index EXCEPT ![p] = 1]
    /\ Goto(p, IF AccessKeys = {} THEN "create_mint" ELSE "create_delete")
    /\ UNCHANGED <<store, begun, current_secret, pending, attempts, current_version,
                   counters, history>>

\* Mutants: no key is deleted; the comparison is inverted.
ToDelete_Never(access_key_id, secret) == FALSE
ToDelete_Inverted(access_key_id, secret) == access_key_id = secret["SMTP_USERNAME"]

\* if access_key_id != current_secret['SMTP_USERNAME']: the key is deleted.
ToDelete(access_key_id, secret) == access_key_id # secret["SMTP_USERNAME"]

\* The loop of this invocation has called iam.delete_access_key in no earlier
\* turn.
NoDeletionYet(p) ==
    \A i \in 1..(key_index[p] - 1) : ~ToDelete(access_keys[p][i], current_secret[p])

\* One turn of the loop over access_keys['AccessKeyMetadata']. The first
\* delete_access_key call of an invocation opens its deletion batch.
create_delete(p) ==
    /\ pc[p] = "create_delete"
    /\ LET access_key_id == access_keys[p][key_index[p]]
           is_last == key_index[p] = Len(access_keys[p])
       IN  /\ batches' = IF ToDelete(access_key_id, current_secret[p]) /\ NoDeletionYet(p)
                         THEN [batches EXCEPT ![token[p]] = @ + 1]
                         ELSE batches
           /\ IF ToDelete(access_key_id, current_secret[p]) /\ access_key_id \notin AccessKeys
              THEN \* iam.delete_access_key raises NoSuchEntityException
                   /\ End(p, "NoSuchEntityException")
                   /\ lost' = [lost EXCEPT ![token[p]] = @ + 1]
                   /\ UNCHANGED AccessKeys
              ELSE /\ AccessKeys' = IF ToDelete(access_key_id, current_secret[p])
                                    THEN AccessKeys \ {access_key_id}
                                    ELSE AccessKeys
                   /\ key_index' = [key_index EXCEPT ![p] = @ + 1]
                   /\ Goto(p, IF is_last THEN "create_mint" ELSE "create_delete")
                   /\ UNCHANGED <<current_secret, access_keys, pending, attempts,
                                  current_version, lost>>
    /\ UNCHANGED <<RotationEnabled, VersionIdsToStages, SecretValues, nextKeyId, begun,
                   mints, history>>

\* Mutant: the password of the template is kept.
NewSecret_OldPassword(template, access_key_id) ==
    SetItem(SetItem(template, "SMTP_USERNAME", access_key_id),
            "SMTP_SECRET", SecretAccessKeyOf(access_key_id))

\* The dictionary create_secret builds from the template and the new key.
NewSecret(template, access_key_id) ==
    LET secret_access_key == SecretAccessKeyOf(access_key_id)
        d1 == SetItem(template, "SMTP_USERNAME", access_key_id)
        d2 == SetItem(d1, "SMTP_SECRET", secret_access_key)
    IN  SetItem(d2, "SMTP_PASSWORD",
                calculate_password(secret_access_key, d2["SMTP_REGION"]))

\* response = iam.create_access_key(UserName=username), and the assignments
\* to current_secret that follow it.
create_mint(p) ==
    /\ pc[p] = "create_mint"
    /\ nextKeyId < 4 + MaxMints
    /\ AccessKeys' = AccessKeys \cup {nextKeyId}
    /\ nextKeyId' = nextKeyId + 1
    /\ current_secret' = [current_secret EXCEPT ![p] = NewSecret(@, nextKeyId)]
    /\ mints' = [mints EXCEPT ![token[p]] = @ + 1]
    /\ Goto(p, "create_put")
    /\ UNCHANGED <<RotationEnabled, VersionIdsToStages, SecretValues, begun,
                   access_keys, key_index, pending, attempts, current_version,
                   batches, lost, history>>

\* Mutant: the new value is staged as current at once.
VersionStages_Current == {"AWSCURRENT"}

\* VersionStages=['AWSPENDING'] of put_secret_value.
VersionStages == {"AWSPENDING"}

\* service_client.put_secret_value(SecretId=arn, ClientRequestToken=token,
\*     SecretString=json.dumps(current_secret), VersionStages=['AWSPENDING'])
create_put(p) ==
    /\ pc[p] = "create_put"
    /\ IF token[p] \in DOMAIN SecretValues /\ SecretValues[token[p]] # current_secret[p]
       THEN \* the version exists with another value: ResourceExistsException
            /\ End(p, "ResourceExistsException")
            /\ lost' = [lost EXCEPT ![token[p]] = @ + 1]
            /\ UNCHANGED <<VersionIdsToStages, SecretValues, created>>
       ELSE /\ SecretValues' =
                 [v \in (DOMAIN SecretValues) \cup {token[p]} |->
                     IF v = token[p] THEN current_secret[p] ELSE SecretValues[v]]
            /\ VersionIdsToStages' =
                 AttachStages(VersionIdsToStages, token[p], VersionStages)
            /\ created' = created \cup {token[p]}
            /\ End(p, "ok")
            /\ UNCHANGED <<lost>>
    /\ UNCHANGED <<RotationEnabled, AccessKeys, nextKeyId, begun, mints, batches,
                   tested, finished>>

\* -------------------------------------------------------------- test_secret
\* pending = get_secret_dict(service_client, arn, "AWSPENDING", token), and the
\* evaluation of the arguments pending['SMTP_USERNAME'], pending['SMTP_SECRET'].
test_get_pending(p) ==
    /\ pc[p] = "test_secret"
    /\ LET raises == get_secret_dict_raises("AWSPENDING", token[p]) IN
       IF raises # "ok" THEN End(p, raises)
       ELSE IF "SMTP_SECRET" \notin DOMAIN SecretValues[token[p]]
       THEN End(p, "KeyError_SMTP_SECRET")
       ELSE /\ pending' = [pending EXCEPT ![p] = SecretValues[token[p]]]
            /\ attempts' = [attempts EXCEPT ![p] = DefaultAttempts]
            /\ Goto(p, "check_access_key")
            /\ UNCHANGED <<current_secret, access_keys, key_index, current_version>>
    /\ UNCHANGED <<store, begun, counters, history>>

\* str.split(sep, maxsplit) on a string given as its sep-separated pieces: at
\* most maxsplit + 1 parts, the last one the unsplit rest.
split(pieces, maxsplit) ==
    IF Len(pieces) <= maxsplit + 1 THEN pieces
    ELSE SubSeq(pieces, 1, maxsplit) \o <<SubSeq(pieces, maxsplit + 1, Len(pieces))>>

\* Mutant: the retries stop early.
TryAgain_Early(n) == n >= 3

\* if attempts >= 0: sleep and try again with attempts - 1.
TryAgain(n) == n >= 0

\* Mutant: any resolved user passes.
Authenticated_Any(name) == name # None

\* if username == os.environ['USERNAME']
Authenticated(name) == name = USERNAME

\* What sts.get_caller_identity() can answer for this access key: a key IAM
\* does not hold cannot authenticate.
StsAnswersFor(access_key_id) ==
    IF access_key_id \in AccessKeys THEN StsAnswers ELSE {ClientError}

\* One call of check_access_key, and for the call that returns, the comparison
\* of test_secret with os.environ['USERNAME'].
check_access_key(p) ==
    /\ pc[p] = "check_access_key"
    /\ \E caller \in StsAnswersFor(pending[p]["SMTP_USERNAME"]) :
         IF caller = ClientError
         THEN IF TryAgain(attempts[p])
              THEN /\ calls' = [calls EXCEPT ![p] = @ + 1]
                   /\ sleeps' = [sleeps EXCEPT ![p] = @ + 1]
                   /\ attempts' = [attempts EXCEPT ![p] = @ - 1]
                   /\ UNCHANGED <<pc, event, last, current_secret, access_keys, key_index,
                                  pending, current_version, tested>>
              ELSE /\ EndWith(p, "VerificationExhausted", None, calls[p] + 1, sleeps[p])
                   /\ UNCHANGED tested
         ELSE LET parts == split(caller, 2) IN
              IF Len(parts) # 2
              THEN \* _prefix, username = ... raises ValueError: too many
                   \* values to unpack, or not enough values to unpack
                   /\ EndWith(p, IF Len(parts) > 2 THEN "ValueError_too_many_values"
                                                   ELSE "ValueError_not_enough_values",
                              None, calls[p] + 1, sleeps[p])
                   /\ UNCHANGED tested
              ELSE IF Authenticated(parts[2])
                   THEN /\ EndWith(p, "ok", parts[2], calls[p] + 1, sleeps[p])
                        /\ tested' = tested \cup {token[p]}
                   ELSE /\ EndWith(p, "VerificationFailed", parts[2], calls[p] + 1,
                                   sleeps[p])
                        /\ UNCHANGED tested
    /\ UNCHANGED <<store, begun, counters, created, finished>>

\* ------------------------------------------------------------ finish_secret
\* Mutant: the loop looks for the wrong label.
CurrentHolders_Pending(vs) == {v \in DOMAIN vs : "AWSPENDING" \in vs[v]}

\* The versions the loop of finish_secret can stop at:
\* "AWSCURRENT" in metadata["VersionIdsToStages"][version].
CurrentHolders(vs) == {v \in DOMAIN vs : "AWSCURRENT" \in vs[v]}

\* metadata = service_client.describe_secret(SecretId=arn) and the loop that
\* looks for the version carrying AWSCURRENT.
finish_describe(p) ==
    /\ pc[p] = "finish_secret"
    /\ IF CurrentHolders(VersionIdsToStages) = {}
       THEN /\ Goto(p, "finish_update")
            /\ UNCHANGED <<locals, finished>>
       ELSE \E version \in CurrentHolders(VersionIdsToStages) :
               IF version = token[p]
               THEN End(p, "ok") /\ UNCHANGED finished
               ELSE /\ current_version' = [current_version EXCEPT ![p] = version]
                    /\ Goto(p, "finish_update")
                    /\ UNCHANGED <<current_secret, access_keys, key_index, pending,
                                   attempts, finished>>
    /\ UNCHANGED <<store, begun, counters, created, tested>>

\* Mutant: RemoveFromVersionId is not checked against the label's holder.
update_raises_Unchecked(vs, values, moveTo, removeFrom) ==
    IF removeFrom = None THEN "ParamValidationError" ELSE "ok"

\* The secret store's side of update_secret_version_stage(VersionStage=
\* "AWSCURRENT", MoveToVersionId=moveTo, RemoveFromVersionId=removeFrom), as
\* the specification states it (the store provides the consistency of stage
\* transitions; it is not part of the repository): what the call raises, or
\* "ok".  The label moves only from the version that holds it.
update_raises(vs, values, moveTo, removeFrom) ==
    IF removeFrom = None THEN "ParamValidationError"
    ELSE IF moveTo \notin (DOMAIN vs) \cup (DOMAIN values)
         THEN "ResourceNotFoundException"
    ELSE IF "AWSCURRENT" \notin StagesOf(vs, removeFrom)
         THEN "InvalidParameterException"
    ELSE "ok"

\* The store's version/stage map after the move, applied atomically:
\* AWSCURRENT goes from removeFrom to moveTo, and AWSPREVIOUS goes to
\* removeFrom.
update_secret_version_stage(vs, moveTo, removeFrom) ==
    LET moved == [v \in (DOMAIN vs) \cup {moveTo} |->
                     IF v = moveTo THEN StagesOf(vs, v) \cup {"AWSCURRENT"}
                     ELSE IF v = removeFrom THEN vs[v] \ {"AWSCURRENT"}
                     ELSE vs[v]]
    IN  AttachStages(moved, removeFrom, {"AWSPREVIOUS"})

finish_update(p) ==
    /\ pc[p] = "finish_update"
    /\ LET raises == update_raises(VersionIdsToStages, SecretValues, token[p],
                                   current_version[p])
       IN  IF raises # "ok"
           THEN End(p, raises) /\ UNCHANGED <<VersionIdsToStages, finished>>
           ELSE /\ VersionIdsToStages' =
                     update_secret_version_stage(VersionIdsToStages, token[p],
                                                 current_version[p])
                /\ finished' = finished \cup {token[p]}
                /\ End(p, "ok")
    /\ UNCHANGED <<RotationEnabled, SecretValues, AccessKeys, nextKeyId, begun,
                   counters, created, tested>>

\* ------------------------------------------------------------------ cut-off
\* The invocation ends between two collaborator calls: the lambda times out or
\* is killed, or the next call raises a transient error that propagates.
cut_off(p) ==
    /\ InFlight(p)
    /\ IF pc[p] \in {"create_delete", "create_mint", "create_put"}
       THEN /\ lost[token[p]] < MaxCutoffs
            /\ lost' = [lost EXCEPT ![token[p]] = @ + 1]
       ELSE UNCHANGED lost
    /\ End(p, "cutoff")
    /\ UNCHANGED <<store, begun, mints, batches, history>>

\* The return or the exception of lambda_handler reaches the caller, and the
\* function can be invoked again.
handler_returns(p) ==
    /\ Returned(p)
    /\ pc' = [pc EXCEPT ![p] = "idle"]
    /\ last' = IF last.proc = p THEN NoOutcome ELSE last
    /\ UNCHANGED <<store, begun, event, locals, calls, sleeps, counters, history>>

\* ------------------------------------------------------- a driven rotation
\* The orchestrator drives one rotation: it invokes the steps of one token in
\* their order, and invokes a step again when the invocation failed or was
\* cut off.
DrivenToken == "t1"

\* The steps the orchestrator can invoke next: the first of createSecret,
\* testSecret and finishSecret that has not succeeded yet; setSecret (`pass`)
\* comes between createSecret and testSecret.
DueSteps ==
    IF DrivenToken \notin created THEN {"createSecret"}
    ELSE IF DrivenToken \notin tested THEN {"setSecret", "testSecret"}
    ELSE IF DrivenToken \notin finished THEN {"finishSecret"}
    ELSE {}

invoke(st) == st \in DueSteps /\ lambda_handler(1, DrivenToken, st)

\* The get_caller_identity call that authenticates as the configured user.
authenticates(p) == check_access_key(p) /\ last'.result = "ok"

DriveInit ==
    /\ Init
    /\ RotationEnabled
    /\ SecretValues = (InitialVersion :> InitialDict)

DriveNext ==
    \/ BeginRotation(DrivenToken)
    \/ \E st \in Steps : invoke(st)
    \/ create_get_current(1)
    \/ create_get_pending(1)
    \/ create_list(1)
    \/ create_delete(1)
    \/ create_mint(1)
    \/ create_put(1)
    \/ test_get_pending(1)
    \/ check_access_key(1)
    \/ finish_describe(1)
    \/ finish_update(1)
    \/ cut_off(1)
    \/ handler_returns(1)

\* The orchestrator goes on invoking the step that is due, the collaborators
\* do not fail for ever (a call that is reached again and again is answered
\* in the end), and the new key authenticates as the user in the end.  Weak fairness is
\* enough where the step stays enabled: the cut-offs of the deletion loop,
\* of create_access_key and of put_secret_value are bounded, and only a
\* setSecret invocation can come before the testSecret that is due.
DriveFairness ==
    /\ WF_vars(BeginRotation(DrivenToken))
    /\ \A st \in Steps \ {"testSecret"} : WF_vars(invoke(st))
    /\ SF_vars(invoke("testSecret"))
    /\ SF_vars(create_get_current(1))
    /\ SF_vars(create_get_pending(1))
    /\ SF_vars(create_list(1))
    /\ WF_vars(create_delete(1))
    /\ WF_vars(create_mint(1))
    /\ WF_vars(create_put(1))
    /\ SF_vars(test_get_pending(1))
    /\ SF_vars(authenticates(1))
    /\ SF_vars(finish_describe(1))
    /\ SF_vars(finish_update(1))
    /\ WF_vars(handler_returns(1))

DriveSpec == DriveInit /\ [][DriveNext]_vars /\ DriveFairness

\* ------------------------------------------------------------ specifications
\* One invocation of lambda_handler: any token, any step, and its steps up to
\* its end or its cut-off.
Invocation(p) ==
    \/ \E tok \in VersionIds, st \in Steps : lambda_handler(p, tok, st)
    \/ create_get_current(p)
    \/ create_get_pending(p)
    \/ create_list(p)
    \/ create_delete(p)
    \/ create_mint(p)
    \/ create_put(p)
    \/ test_get_pending(p)
    \/ check_access_key(p)
    \/ finish_describe(p)
    \/ finish_update(p)
    \/ cut_off(p)
    \/ handler_returns(p)

\* Invocations follow one another: the orchestrator invokes a step when the
\* invocation before it has ended.
Quiet == \A p \in Procs : pc[p] = "idle"

Next ==
    \/ \E t \in Tokens : Quiet /\ BeginRotation(t)
    \/ Invocation(1)

Spec == Init /\ [][Next]_vars

\* An invocation of a step that writes to the secret store or to IAM, or that
\* returns at once: every step but testSecret, which only reads.
Writer(p) ==
    \/ \E tok \in VersionIds, st \in Steps \ {"testSecret"} : lambda_handler(p, tok, st)
    \/ create_get_current(p)
    \/ create_get_pending(p)
    \/ create_list(p)
    \/ create_delete(p)
    \/ create_mint(p)
    \/ create_put(p)
    \/ finish_describe(p)
    \/ finish_update(p)
    \/ handler_returns(p)

\* Two invocations overlap (a retry that starts while a timed-out invocation
\* still runs, or two rotations), on a secret that is enabled for rotation and
\* well formed.
RaceInit ==
    /\ Init
    /\ RotationEnabled
    /\ SecretValues = (InitialVersion :> InitialDict)
    /\ AccessKeys = {CurrentKeyId, 2}

RaceNext ==
    \/ \E t \in Tokens : BeginRotation(t)
    \/ \E p \in Procs : Writer(p)

RaceSpec == RaceInit /\ [][RaceNext]_vars

\* ================================================================== claims
\* The versions that carry a stage label.
Carrying(stage) == {v \in DOMAIN VersionIdsToStages : stage \in VersionIdsToStages[v]}

\* C1 (idempotency law): when rotation is enabled and the token's version
\* already carries AWSCURRENT, an invocation with any step value, the unknown
\* one included, returns success at once and writes nothing: no secret value,
\* no stage move, no access key deleted or created.
C1_CurrentTokenIsNoOp ==
    [][\A p \in Procs, tok \in VersionIds, st \in Steps :
          ( /\ RotationEnabled
            /\ tok \in DOMAIN VersionIdsToStages
            /\ "AWSCURRENT" \in VersionIdsToStages[tok]
            /\ lambda_handler(p, tok, st) )
          => ( /\ last' = Outcome(p, tok, st, "ok", None, 0, 0)
               /\ Returned(p)'
               /\ UNCHANGED <<store, counters>> )]_vars

\* A step that is no step of the rotation returned success for a promoted
\* token, which only the early return allows.
C1_Witness ==
    /\ last.result = "ok"
    /\ last.step = "deleteSecret"
    /\ last.token \in finished
    /\ last.token \in Carrying("AWSCURRENT")

\* An invocation of createSecret for token t is running.
CreateRunning(t) ==
    \E p \in Procs : InFlight(p) /\ token[p] = t /\ step[p] = "createSecret"

\* C2 (createSecret is idempotent per token): once a createSecret invocation
\* has completed for a token, no step of a later createSecret invocation with
\* that token mints or deletes an access key or changes the token's stored
\* value.
C2_CreateIdempotent ==
    [][\A t \in created :
          ( \/ CreateRunning(t)
            \/ \E p \in Procs : lambda_handler(p, t, "createSecret") )
          => ( /\ AccessKeys' = AccessKeys
               /\ nextKeyId' = nextKeyId
               /\ mints' = mints
               /\ batches' = batches
               /\ SecretValues' = SecretValues )]_vars

\* A second createSecret invocation for a token whose value is stored is at
\* the point where it looks for that value.
C2_Witness ==
    \E p \in Procs :
        /\ pc[p] = "create_get_pending"
        /\ token[p] \in created
        /\ token[p] \in DOMAIN SecretValues
        /\ mints[token[p]] = 1

\* C3 as stated: the user never holds more than one access key once
\* createSecret has minted one.
C3_AtMostOneKey == nextKeyId > 4 => Cardinality(AccessKeys) <= 1

\* C3 (amended): after any sequence of invocations in which createSecret has
\* minted a key, the user holds at most two access keys; and whenever
\* createSecret has finished its deletion loop and is about to mint, the user
\* holds at most one key, the one the AWSCURRENT secret names.
C3_AtMostTwoKeys ==
    /\ nextKeyId > 4 => Cardinality(AccessKeys) <= 2
    /\ \A p \in Procs :
          pc[p] = "create_mint" =>
              \A v \in Carrying("AWSCURRENT") :
                  AccessKeys \subseteq {SecretValues[v]["SMTP_USERNAME"]}

\* After a completed rotation two keys exist side by side: the minted one,
\* which the AWSCURRENT secret now names, and the one it replaced.
C3_Witness ==
    /\ nextKeyId > 4
    /\ finished # {}
    /\ Cardinality(AccessKeys) = 2
    /\ CurrentKeyId \in AccessKeys
    /\ \E v \in Carrying("AWSCURRENT") \cap created :
          /\ SecretValues[v]["SMTP_USERNAME"] \in AccessKeys
          /\ SecretValues[v]["SMTP_USERNAME"] # CurrentKeyId

C5_FinishPromotes ==
    /\ [](last.step = "finishSecret" /\ last.result = "ok"
             => Carrying("AWSCURRENT") = {last.token})
    /\ [][\A p \in Procs :
             finish_update(p) =>
                 /\ last'.result = "ok"
                 /\ current_version[p] # token[p]
                 /\ "AWSCURRENT" \in StagesOf(VersionIdsToStages', token[p])
                 /\ "AWSCURRENT" \notin StagesOf(VersionIdsToStages', current_version[p])]_vars
    /\ [][\A p \in Procs, t \in finished :
             t \in Carrying("AWSCURRENT") /\ lambda_handler(p, t, "finishSecret")
             => last'.result = "ok" /\ Returned(p)' /\ UNCHANGED <<store, counters>>]_vars

\* finishSecret has moved AWSCURRENT from the initial version to the token's.
C5_Witness ==
    /\ last.step = "finishSecret"
    /\ last.result = "ok"
    /\ last.token \in finished
    /\ Carrying("AWSCURRENT") = {last.token}
    /\ InitialVersion \in Carrying("AWSPREVIOUS")

\* C6 as stated: over all createSecret invocations with one token, those
\* after a cut-off included, the identity provider sees at most one deletion
\* batch and, once the token's value is stored, exactly one create_access_key.
C6_OneBatchOneMint ==
    \A t \in Tokens :
        /\ batches[t] <= 1
        /\ mints[t] <= 1
        /\ (t \in created => mints[t] = 1)

\* C7 as stated: one verification makes at most 5 get_caller_identity calls,
\* and gives up after exactly 5 when every call fails to authenticate.
C7_AtMostFiveCalls ==
    /\ \A p \in Procs : calls[p] + 1 <= DefaultAttempts \/ pc[p] # "check_access_key"
    /\ last.calls <= DefaultAttempts
    /\ last.result = "VerificationExhausted" => last.calls = DefaultAttempts

\* C8: a get_caller_identity call that authenticates and resolves a user other
\* than the expected one ends testSecret at once with VerificationFailed
\* naming that user: no sleep and no further call follow it, so a candidate
\* that authenticates on the first call costs exactly one call and no sleep;
\* and VerificationFailed is raised for no other reason.
C8_WrongIdentityFailsAtOnce ==
    /\ [](last.username \notin {None, USERNAME}
             => /\ last.result = "VerificationFailed"
                /\ last.step = "testSecret"
                /\ last.calls = last.sleeps + 1)
    /\ [](last.result = "VerificationFailed" => last.username \notin {None, USERNAME})
    /\ [][\A p \in Procs :
             ( /\ pc[p] = "check_access_key"
               /\ calls[p] = 0
               /\ last'.username \notin {None, USERNAME} )
             => ( /\ last' = Outcome(p, token[p], "testSecret", "VerificationFailed",
                                     last'.username, 1, 0)
                  /\ Returned(p)'
                  /\ UNCHANGED <<store, counters, history>> )]_vars

\* The candidate authenticated on the first call as somebody else.
C8_Witness ==
    /\ last.result = "VerificationFailed"
    /\ last.step = "testSecret"
    /\ last.username = "mallory"
    /\ last.calls = 1
    /\ last.sleeps = 0

\* C9: within the budget of 5 calls, a get_caller_identity call that fails to
\* authenticate is followed by one sleep and another call, never by giving
\* up; so a candidate that first authenticates, as the expected user, on call
\* k <= 5 passes testSecret after exactly k calls and k - 1 sleeps.
C9_RetryUntilAccepted ==
    [][\A p \in Procs :
          ( /\ pc[p] = "check_access_key"
            /\ calls[p] + 1 <= DefaultAttempts
            /\ check_access_key(p) )
          => \/ /\ pc'[p] = "check_access_key"
                /\ calls'[p] = calls[p] + 1
                /\ sleeps'[p] = sleeps[p] + 1
                /\ sleeps'[p] = calls'[p]
             \/ /\ Returned(p)'
                /\ last'.result # "VerificationExhausted"
                /\ last'.calls = calls[p] + 1
                /\ last'.sleeps = calls[p]
                /\ last'.username = USERNAME =>
                      last'.result = "ok" /\ token[p] \in tested']_vars

\* testSecret passed on the last call of the budget, after four sleeps.
C9_Witness ==
    /\ last.result = "ok"
    /\ last.step = "testSecret"
    /\ last.username = USERNAME
    /\ last.calls = DefaultAttempts
    /\ last.sleeps = DefaultAttempts - 1

\* The access key ids of a listing.
Listed(keys) == {keys[i] : i \in DOMAIN keys}

\* C10: when createSecret has minted its key, the user's keys are exactly the
\* listed key the AWSCURRENT secret names, if it was listed, and the minted
\* key: every other listed key is deleted and the AWSCURRENT one is not.
C10_KeysAfterMint ==
    \A p \in Procs :
        pc[p] = "create_put" =>
            \A v \in Carrying("AWSCURRENT") :
                AccessKeys =
                    {k \in Listed(access_keys[p]) : k = SecretValues[v]["SMTP_USERNAME"]}
                        \cup {current_secret[p]["SMTP_USERNAME"]}

\* Three keys were listed, the AWSCURRENT one among them: it and the minted
\* key are what is left.
C10_Witness ==
    /\ pc[1] = "create_put"
    /\ Listed(access_keys[1]) = InitialKeyIds
    /\ CurrentKeyId \in AccessKeys
    /\ Cardinality(AccessKeys) = 2
    /\ nextKeyId = 5

\* C11 (sole promotion point): the set of versions that carry AWSCURRENT
\* changes only in the update_secret_version_stage step of a finishSecret
\* invocation; no step of createSecret, setSecret or testSecret, whether the
\* invocation succeeds or fails, and no start of a rotation changes it.
C11_OnlyFinishPromotes ==
    [][{v \in DOMAIN VersionIdsToStages' : "AWSCURRENT" \in VersionIdsToStages'[v]}
           # Carrying("AWSCURRENT")
       => \E p \in Procs : step[p] = "finishSecret" /\ finish_update(p)]_vars

\* createSecret and testSecret have both succeeded for a token, a testSecret
\* has just returned, and AWSCURRENT is still where it was at the start.
C11_Witness ==
    /\ last.step = "testSecret"
    /\ last.result = "ok"
    /\ last.token \in created \cap tested
    /\ finished = {}
    /\ Carrying("AWSCURRENT") = {InitialVersion}

\* The precondition of every step that the event violates first, or "none".
FailedPrecondition(tok) ==
    IF ~RotationEnabled THEN "NotConfigured"
    ELSE IF tok \notin DOMAIN VersionIdsToStages THEN "UnknownVersion"
    ELSE IF VersionIdsToStages[tok] \cap {"AWSCURRENT", "AWSPENDING"} = {}
         THEN "InvalidStage"
         ELSE "none"

\* C12 (precondition failures): an invocation fails with NotConfigured when
\* rotation is disabled, else with UnknownVersion when the token is no version
\* of the secret, else with InvalidStage when its version carries neither
\* AWSCURRENT nor AWSPENDING, for every step value; it fails in the handler,
\* before any step function runs, and leaves the stage map, the stored values
\* and the access keys as they were. These failures arise in no other case.
C12_PreconditionFailures ==
    /\ [][\A p \in Procs, tok \in VersionIds, st \in Steps :
             ( /\ pc[p] = "idle"
               /\ FailedPrecondition(tok) # "none"
               /\ lambda_handler(p, tok, st) )
             => ( /\ last' = Outcome(p, tok, st, FailedPrecondition(tok), None, 0, 0)
                  /\ Returned(p)'
                  /\ UNCHANGED <<store, counters, history>> )]_vars
    /\ [](last.result \in {"NotConfigured", "UnknownVersion", "InvalidStage"}
             => last.result = FailedPrecondition(last.token))

\* The displaced initial version, which carries AWSPREVIOUS only, was
\* refused as a token.
C12_Witness ==
    /\ last.result = "InvalidStage"
    /\ last.token = InitialVersion
    /\ last.step = "createSecret"
    /\ RotationEnabled
    /\ StagesOf(VersionIdsToStages, InitialVersion) = {"AWSPREVIOUS"}

\* The four steps of a rotation.
RotationSteps == {"createSecret", "setSecret", "testSecret", "finishSecret"}

\* C13 as stated: every invocation with a step value outside the four steps
\* fails with UnknownPhase.
C13_UnknownStepAlwaysFails ==
    last.step \in Steps \ RotationSteps => last.result = "UnknownPhase"

\* C13 (amended): an invocation with a step value outside the four steps
\* fails with UnknownPhase, and changes nothing, when the event passes the
\* staging checks (rotation enabled, token known, its version carrying
\* AWSPENDING and not AWSCURRENT); when a check fails it fails with that
\* check's error, and when the version already carries AWSCURRENT it returns
\* success. UnknownPhase arises for no step of the four.
C13_UnknownStepAfterChecks ==
    /\ [][\A p \in Procs, tok \in VersionIds, st \in Steps \ RotationSteps :
             ( /\ pc[p] = "idle"
               /\ FailedPrecondition(tok) = "none"
               /\ "AWSCURRENT" \notin VersionIdsToStages[tok]
               /\ lambda_handler(p, tok, st) )
             => ( /\ last' = Outcome(p, tok, st, "UnknownPhase", None, 0, 0)
                  /\ Returned(p)'
                  /\ UNCHANGED <<store, counters, history>> )]_vars
    /\ [](last.step \in Steps \ RotationSteps =>
             last.result =
                 IF FailedPrecondition(last.token) # "none"
                 THEN FailedPrecondition(last.token)
                 ELSE IF last.token \in Carrying("AWSCURRENT") THEN "ok"
                      ELSE "UnknownPhase")
    /\ [](last.result = "UnknownPhase" => last.step \notin RotationSteps)

\* An unknown step was refused for a token whose version is pending.
C13_Witness ==
    /\ last.result = "UnknownPhase"
    /\ last.step = "deleteSecret"
    /\ last.token \in Carrying("AWSPENDING")
    /\ last.token \notin Carrying("AWSCURRENT")

\* The four fields of the secret's schema: username, secret_material,
\* derived_password, region.
SchemaFields == {"SMTP_USERNAME", "SMTP_SECRET", "SMTP_PASSWORD", "SMTP_REGION"}

\* C14 as stated: a step that fetches a value lacking one of the four schema
\* fields fails at the fetch; so while the AWSCURRENT value lacks one of them,
\* no createSecret has deleted or created an access key or stored a value.
C14_FourFieldSchema ==
    \A v \in Carrying("AWSCURRENT") \cap DOMAIN SecretValues :
        ~(SchemaFields \subseteq DOMAIN SecretValues[v]) =>
            /\ nextKeyId = 4
            /\ created = {}
            /\ \A t \in Tokens : mints[t] = 0 /\ batches[t] = 0

\* The fields createSecret overwrites.
KeyFields == {"SMTP_USERNAME", "SMTP_SECRET", "SMTP_PASSWORD"}

\* C15 (the value written): a createSecret invocation that minted a key and
\* whose put_secret_value succeeds leaves the token's version, and no other,
\* carrying AWSPENDING, with a value that has the fields of the AWSCURRENT
\* template and the three key fields: SMTP_USERNAME is the id of the key just
\* minted, SMTP_SECRET that key's secret, SMTP_PASSWORD the password derived
\* from that secret and the template's region; every other field, the region
\* included, equals the template's; and the value of every other version,
\* the AWSCURRENT one included, is as it was.
C15_WrittenValue ==
    [][\A p \in Procs :
          ( /\ pc[p] = "create_put"
            /\ create_put(p)
            /\ last'.result = "ok" )
          => LET t == token[p]
                 new == SecretValues'[t]
             IN  /\ {v \in DOMAIN VersionIdsToStages' :
                        "AWSPENDING" \in VersionIdsToStages'[v]} = {t}
                 /\ DOMAIN SecretValues' = DOMAIN SecretValues \cup {t}
                 /\ \A v \in DOMAIN SecretValues \ {t} : SecretValues'[v] = SecretValues[v]
                 /\ new["SMTP_USERNAME"] = nextKeyId - 1
                 /\ new["SMTP_USERNAME"] \in AccessKeys \ InitialKeyIds
                 /\ new["SMTP_SECRET"] = SecretAccessKeyOf(new["SMTP_USERNAME"])
                 /\ \A v \in Carrying("AWSCURRENT") :
                       LET template == SecretValues[v] IN
                       /\ v # t
                       /\ DOMAIN new = DOMAIN template \cup KeyFields
                       /\ \A f \in DOMAIN template \ KeyFields : new[f] = template[f]
                       /\ new["SMTP_PASSWORD"] =
                             calculate_password(new["SMTP_SECRET"], template["SMTP_REGION"])
                       /\ new["SMTP_PASSWORD"] # template["SMTP_PASSWORD"]]_vars

\* createSecret has stored the value for the first minted key beside the
\* untouched initial value.
C15_Witness ==
    /\ last.step = "createSecret"
    /\ last.result = "ok"
    /\ last.token \in created \cap DOMAIN SecretValues
    /\ SecretValues[last.token]["SMTP_USERNAME"] = 4
    /\ SecretValues[last.token]["SMTP_HOST"] = InitialDict["SMTP_HOST"]
    /\ SecretValues[InitialVersion] = InitialDict
    /\ Carrying("AWSCURRENT") = {InitialVersion}

\* C17 as stated: finishSecret has moved AWSCURRENT only to versions of tokens
\* for which createSecret stored a value and testSecret succeeded before.
\* (tested and created only grow, so membership now is membership earlier.)
C17_PromotedAfterValidated == finished \subseteq created \cap tested

\* The token's version carries AWSCURRENT and its value names the key that
\* testSecret verified: the key minted last, which the user still holds.
Promoted(t) ==
    /\ t \in Carrying("AWSCURRENT")
    /\ t \in created \cap tested \cap finished
    /\ t \in DOMAIN SecretValues
    /\ SecretValues[t]["SMTP_USERNAME"] = nextKeyId - 1
    /\ SecretValues[t]["SMTP_USERNAME"] \in AccessKeys

\* C18 (recovery): when the orchestrator goes on invoking the step that is
\* due for the token, whatever invocations were cut off or failed on the way,
\* the token's version carries AWSCURRENT in the end and for good, and its
\* value names the key testSecret verified; the value testSecret read is the
\* value promoted, because a stored value is never written again.
C18_Recovery ==
    /\ <>[]Promoted(DrivenToken)
    /\ (\E t \in Tokens : lost[t] > 0) ~> Promoted(DrivenToken)
    /\ [][\A t \in created : SecretValues'[t] = SecretValues[t]]_vars

\* The rotation was completed although a createSecret invocation was cut off
\* after it had minted a key.
C18_Witness ==
    /\ Promoted(DrivenToken)
    /\ lost[DrivenToken] > 0
    /\ mints[DrivenToken] = 2
    /\ Returned(1)

\* The value of every version that carries AWSCURRENT and holds one names, in
\* SMTP_USERNAME, an access key the user holds.
CurrentKeyExists ==
    \A v \in Carrying("AWSCURRENT") \cap DOMAIN SecretValues :
        /\ "SMTP_USERNAME" \in DOMAIN SecretValues[v]
        /\ SecretValues[v]["SMTP_USERNAME"] \in AccessKeys

\* A version carries AWSCURRENT without a value only when finishSecret
\* promoted its token before any createSecret stored a value for it.
CurrentHasValue ==
    \A v \in Carrying("AWSCURRENT") \ DOMAIN SecretValues :
        v \in finished \ created

\* C19: when the AWSCURRENT value names an existing access key at the start,
\* then after any sequence of invocations, for any tokens and steps, cut-offs
\* and abandoned rotations included, the value of the version that carries
\* AWSCURRENT names an access key the user still holds; the version that
\* carries AWSCURRENT has a value unless its token was promoted before
\* createSecret stored one.
C19_CurrentKeyKept == CurrentKeyExists => [](CurrentKeyExists /\ CurrentHasValue)

\* The original key existed and still does.  The rotation of t1 was abandoned
\* after createSecret and its key deleted by the createSecret of t2, whose
\* version was then promoted and names a key the user holds.
C19_Witness ==
    /\ created = Tokens
    /\ finished = {"t2"}
    /\ Carrying("AWSCURRENT") = {"t2"}
    /\ CurrentKeyId \in AccessKeys
    /\ SecretValues["t2"]["SMTP_USERNAME"] \in AccessKeys \ {CurrentKeyId}
    /\ SecretValues["t1"]["SMTP_USERNAME"] \notin AccessKeys
    /\ SecretValues[InitialVersion] = InitialDict

\* The user names carried by the Arns that have at least one '/': the piece
\* after the last '/'.
TrailingSegments == {arn[Len(arn)] : arn \in {a \in Arns : Len(a) >= 2}}

\* C20: a get_caller_identity call that authenticates with an Arn of one or
\* more '/' separators makes check_access_key return the piece after the last
\* '/', so testSecret ends with "ok" or VerificationFailed for that user and
\* never with another error.  (An Arn without '/' is outside the claim.)
C20_VerifyReturnsTrailingSegment ==
    [][\A p \in Procs :
          ( /\ pc[p] = "check_access_key"
            /\ Returned(p)'
            /\ last'.result \notin {"VerificationExhausted",
                                    "ValueError_not_enough_values"}
            /\ check_access_key(p) )
          => ( /\ last'.result \in {"ok", "VerificationFailed"}
               /\ last'.username \in TrailingSegments )]_vars

====
